---------------------------- MODULE Spec2Model ----------------------------
(***************************************************************************)
(* Model of go-google-admin-metrics (src/main.go): an HTTP server that     *)
(* polls the Google Admin usage-report API for storage quota and exposes   *)
(* it as an HTML page ("/") and as Prometheus metrics ("/metrics"), each   *)
(* behind an optional shared-secret query token.                           *)
(*                                                                         *)
(* Time is counted in hours since an arbitrary epoch, in UTC.  A calendar  *)
(* date is the day number of an instant.  float64 quantities that the      *)
(* program multiplies beyond 2^31 are carried as decimal limb sequences    *)
(* (base 1000, least significant limb first, no leading zero limb), so     *)
(* that <<776, 627, 511, 99, 1>> reads 1,099,511,627,776.                  *)
(***************************************************************************)
EXTENDS Integers, Sequences, FiniteSets, TLC

VARIABLES
    conf,         \* the global configuration object (WebAuth, MetricsAuth)
    phase,        \* "startup" before prometheus.MustRegister, then "serving";
                  \* "crashed" once an unrecovered panic has ended the process
    described,    \* descriptors the registry received from Describe
    now,          \* wall clock, in hours
    ticksLeft,    \* how many more hours the clock may advance in this run
    env,          \* this run's surroundings: open connections, the requests
                  \* clients send, what upstream and the template may do,
                  \* the process's local time zone
    pc,           \* per connection: "idle", "loop" (about to probe), "wait"
                  \* (call sent, no answer yet), "after", "done", "panicked"
    req,          \* per connection: the request being handled
    frame,        \* the locals of fetchQuotaStats: i, t, resp, err
    ret,          \* per connection: what fetchQuotaStats returned
    response,     \* per connection: status and body written to the client
    samples,      \* per connection: metrics sent on Collect's channel
    handlerCalls, \* per connection: invocations of the wrapped handler
    fetches,      \* per connection: invocations of fetchQuotaStats
    dates,        \* per connection: dates of the upstream calls issued, in order
    fails,        \* per connection: how many of those calls failed
    firstErr,     \* per connection: error of the first upstream call
    lastOut,      \* per connection: outcome of the latest upstream call
    everFailed    \* some earlier scrape ended with a failed fetch

vars == <<conf, phase, described, now, ticksLeft, env, pc, req, frame, ret,
          response, samples, handlerCalls, fetches, dates, fails, firstErr,
          lastOut, everFailed>>

-----------------------------------------------------------------------------
(* Bounds of the model *)

\* How many hours the clock may advance during one run.
MaxTicks == 2

Conns == {1, 2}

\* Ten days and 23 hours after the epoch: one hour before a UTC midnight.
StartHour == 10 * 24 + 23

Secrets == {"", "a", "b"}

Paths == {"/", "/metrics"}

\* The values of the `token` query parameter, in order of appearance.
Queries == {<< >>, <<"a">>, <<"b">>, <<"b", "a">>}

UpstreamErrors == {"e1", "e2"}

-----------------------------------------------------------------------------
(* Values *)

NoErr == "nil"

ZeroTime == 0

NilResp == [isNil |-> TRUE, usageReports |-> << >>]

Param(name, v) == [name |-> name, intValue |-> v]

Report(entries) == [isNil |-> FALSE, usageReports |-> entries]

\* A report for the date with no usage-report entry.
RepEmpty == Report(<< >>)

RepFull ==
    Report(<< <<Param("accounts:num_users", 7),
                Param("accounts:total_quota_in_mb", 1048576),
                Param("accounts:used_quota_in_mb", 524288)>> >>)

\* One entry that carries neither quota parameter.
RepNoQuota == Report(<< <<Param("accounts:num_users", 7)>> >>)

\* Two entries; the first names used twice.
RepTwo ==
    Report(<< <<Param("accounts:used_quota_in_mb", 9),
                Param("accounts:total_quota_in_mb", 15),
                Param("accounts:used_quota_in_mb", 3)>>,
              <<Param("accounts:total_quota_in_mb", 1),
                Param("accounts:used_quota_in_mb", 1)>> >>)

Reports == {RepEmpty, RepFull, RepNoQuota, RepTwo}

\* What CustomerUsageReports.Get(date).Do() may return.
Outcomes ==
    {[resp |-> NilResp, err |-> e] : e \in UpstreamErrors}
    \cup {[resp |-> rp, err |-> NoErr] : rp \in Reports}

-----------------------------------------------------------------------------
(* Decimal limb arithmetic for float64 values that are whole numbers *)

Base == 10 * 10 * 10

RECURSIVE ToBig(_)
ToBig(n) == IF n = 0 THEN << >> ELSE <<n % Base>> \o ToBig(n \div Base)

Limb(a, k) == IF k >= 1 /\ k <= Len(a) THEN a[k] ELSE 0

RECURSIVE Carry(_, _)
\* Normalises a sequence of column sums into limbs below Base.
Carry(cols, c) ==
    IF cols = << >> THEN ToBig(c)
    ELSE LET s == cols[1] + c
         IN  <<s % Base>> \o Carry(Tail(cols), s \div Base)

RECURSIVE Strip(_)
Strip(a) ==
    IF a # << >> /\ a[Len(a)] = 0 THEN Strip(SubSeq(a, 1, Len(a) - 1)) ELSE a

RECURSIVE ColSum(_, _, _, _)
ColSum(a, b, k, j) ==
    IF j > Len(a) THEN 0
    ELSE a[j] * Limb(b, k + 1 - j) + ColSum(a, b, k, j + 1)

MulBig(a, b) ==
    IF a = << >> \/ b = << >> THEN << >>
    ELSE Strip(Carry([k \in 1..(Len(a) + Len(b) - 1) |-> ColSum(a, b, k, 1)], 0))


-----------------------------------------------------------------------------
(* Time: time.Now, AddDate, Truncate, Format, Unix (main.go:100-101, 82) *)

\* 24 * time.Hour, in hours.
Day == 24

SecondsPerHour == 3600

\* A time zone with one change of offset: `before` hours east of UTC until
\* the instant `at`, `after` hours from then on.
ZoneUTC == [at |-> 0, before |-> 0, after |-> 0]

\* America/New_York leaving daylight time at 06:00 UTC of day 10.
ZoneFallBack == [at |-> 10 * 24 + 6, before |-> -4, after |-> -5]

\* The same change one day earlier.
ZoneFallBackEarlier == [at |-> 9 * 24 + 6, before |-> -4, after |-> -5]

\* America/New_York entering daylight time at 07:00 UTC of day 10.
ZoneSpringForward == [at |-> 10 * 24 + 7, before |-> -5, after |-> -4]

Zones == {ZoneUTC, ZoneFallBack, ZoneFallBackEarlier, ZoneSpringForward}

\* Location.lookup: the offset in force at a UTC instant.
ZoneOffset(z, u) == IF u < z.at THEN z.before ELSE z.after

\* time.Date(..., loc): the instant of a wall-clock reading.  The offset is
\* looked up at the reading taken as UTC and, when the instant it gives lies
\* in the zone's other period, looked up again at that instant.
DateInZone(z, wall) ==
    LET o1  == ZoneOffset(z, wall)
        utc == wall - o1
        o   == IF o1 # 0 /\ ((utc < z.at) # (wall < z.at))
               THEN ZoneOffset(z, utc)
               ELSE o1
    IN  wall - o

\* t.AddDate(0, 0, days) on a local time: the same wall-clock reading `days`
\* calendar days later, which is 23 or 25 hours away across an offset change.
AddDate(z, x, days) == DateInZone(z, x + ZoneOffset(z, x) + days * Day)

Truncate(x) == x - (x % Day)

\* t.Format("2006-01-02"): the calendar date, as a day number.
FormatDate(x) == x \div Day

Unix(x) == x * SecondsPerHour

ProbeTime(z, n, i) == Truncate(AddDate(z, n, i))

-----------------------------------------------------------------------------
(* Access gate and routing (main.go:241-252, 294-296) *)

\* r.URL.Query().Get("token"): the first value, "" when there is none.
QueryGet(query) == IF query = << >> THEN "" ELSE query[1]

\* Drops the test for an empty secret.
authTokenMiddlewareNoBypass(authToken, query) ==
    IF QueryGet(query) # authToken THEN "Unauthorized" ELSE "next"

authTokenMiddleware(authToken, query) ==
    IF authToken # "" /\ QueryGet(query) # authToken
    THEN "Unauthorized"
    ELSE "next"

\* Builds both gates from the web secret.
MuxOneSecret(c) ==
    [p \in Paths |->
        IF p = "/metrics"
        THEN [authToken |-> c.WebAuth, next |-> "promhttp"]
        ELSE [authToken |-> c.WebAuth, next |-> "statsPage"]]

Mux(c) ==
    [p \in Paths |->
        IF p = "/metrics"
        THEN [authToken |-> c.MetricsAuth, next |-> "promhttp"]
        ELSE [authToken |-> c.WebAuth, next |-> "statsPage"]]

-----------------------------------------------------------------------------
(* The collector (main.go:41-90) *)

NewQuotaCollector ==
    [timestamp |-> "google_workspace_quota_timestamp",
     total     |-> "google_workspace_quota_bytes_total",
     used      |-> "google_workspace_quota_bytes_used"]

Describe(c) == <<c.total, c.used>>

BytesPerMB == 1048576

\* A decimal megabyte instead of 2^20.
MBToBytesDecimal(mb) == MulBig(ToBig(mb), ToBig(1000 * 1000))

MBToBytes(mb) == MulBig(ToBig(mb), ToBig(BytesPerMB))

Gauge(desc, v) == [desc |-> desc, type |-> "gauge", value |-> v]

\* Sends the three samples whatever the fetch returned.
CollectAlways(c, rt) ==
    <<Gauge(c.timestamp, ToBig(Unix(rt.t))),
      Gauge(c.total, MBToBytes(rt.total)),
      Gauge(c.used, MBToBytes(rt.used))>>

\* What Collect sends on its channel, given what fetchQuotaStats returned.
Collect(c, rt) ==
    IF rt.err # NoErr THEN << >>
    ELSE <<Gauge(c.timestamp, ToBig(Unix(rt.t))),
           Gauge(c.total, MBToBytes(rt.total)),
           Gauge(c.used, MBToBytes(rt.used))>>

-----------------------------------------------------------------------------
(* fetchQuotaStats (main.go:92-126) *)

LoopStart == -1

LoopEnd == -6

\* One shared set of locals for every invocation.
SharedLocal(r) == 1

\* The locals t, resp, err, i belong to the invocation.
Local(r) == r

NewFrame == [i |-> LoopStart, t |-> ZeroTime, resp |-> NilResp, err |-> NoErr]

RECURSIVE Extract(_, _)
\* The loop over the parameters: a later parameter of the same name wins.
Extract(params, acc) ==
    IF params = << >> THEN acc
    ELSE LET p == params[1]
         IN  Extract(Tail(params),
                     IF p.name = "accounts:total_quota_in_mb"
                     THEN [acc EXCEPT !.total = p.intValue]
                     ELSE IF p.name = "accounts:used_quota_in_mb"
                     THEN [acc EXCEPT !.used = p.intValue]
                     ELSE acc)

\* (used / total) * 100, kept as the fraction num/den; den = 0 is NaN or Inf.
Percentage(used, total) == [num |-> used * 100, den |-> total]

\* Lines 107-125: what the function does once the loop is over.
FetchReturn(f) ==
    IF f.err # NoErr
    THEN [panic |-> FALSE, t |-> ZeroTime, total |-> 0, used |-> 0,
          pct |-> Percentage(0, 0), err |-> f.err]
    ELSE IF f.resp.isNil \/ Len(f.resp.usageReports) = 0
    THEN [panic |-> TRUE, t |-> ZeroTime, total |-> 0, used |-> 0,
          pct |-> Percentage(0, 0), err |-> NoErr]
    ELSE LET q == Extract(f.resp.usageReports[1], [total |-> 0, used |-> 0])
         IN  [panic |-> FALSE, t |-> f.t, total |-> q.total, used |-> q.used,
              pct |-> Percentage(q.used, q.total), err |-> NoErr]

NoRet ==
    [panic |-> FALSE, t |-> ZeroTime, total |-> 0, used |-> 0,
     pct |-> Percentage(0, 0), err |-> NoErr]

-----------------------------------------------------------------------------
(* The stats page (main.go:175-239) *)

\* strconv.FormatFloat(mb/1048576, 'f', 3, 64): the number of thousandths,
\* rounded to nearest, ties to even.
FormatTB(mb) ==
    LET x == mb * 1000
        q == x \div BytesPerMB
        m == x % BytesPerMB
    IN  IF 2 * m > BytesPerMB THEN q + 1
        ELSE IF 2 * m = BytesPerMB THEN q + (q % 2)
        ELSE q

\* The template parses and executes; does not parse; fails to execute before
\* anything was written; fails to execute after part of the page was written.
RenderOutcomes == {"ok", "parse_err", "exec_err", "exec_err_late"}

StatusOK == 200

StatusUnauthorized == 401

StatusInternalServerError == 500

NoResponse == [status |-> 0, body |-> "", page |-> << >>]

\* http.Error: the status and the message followed by a newline.
HttpError(msg, code) == [status |-> code, body |-> msg \o "\n", page |-> << >>]

renderStatsPage(stats, render) ==
    IF render = "parse_err"
    THEN HttpError("Failed to parse template", StatusInternalServerError)
    ELSE IF render = "exec_err"
    THEN HttpError("Failed to render template", StatusInternalServerError)
    ELSE IF render = "exec_err_late"
    THEN \* The first write sent status 200; http.Error's WriteHeader is
         \* ignored and its message follows the partial page.
         [status |-> StatusOK,
          body |-> "stats.html (partial)" \o "Failed to render template\n",
          page |-> << >>]
    ELSE [status |-> StatusOK, body |-> "stats.html", page |-> <<stats>>]

\* Sends the upstream error's text to the client.
statsPageLeakingErr(rt, render) ==
    IF rt.err # NoErr
    THEN HttpError("Failed to fetch quota stats: " \o rt.err,
                   StatusInternalServerError)
    ELSE renderStatsPage([Date |-> FormatDate(rt.t),
                          TotalQuota |-> FormatTB(rt.total),
                          UsedQuota |-> FormatTB(rt.used),
                          PercentageUsed |-> rt.pct], render)

\* The handler's response, given what fetchQuotaStats returned.
statsPageHanderFunc(rt, render) ==
    IF rt.err # NoErr
    THEN HttpError("Failed to fetch quota stats", StatusInternalServerError)
    ELSE renderStatsPage([Date |-> FormatDate(rt.t),
                          TotalQuota |-> FormatTB(rt.total),
                          UsedQuota |-> FormatTB(rt.used),
                          PercentageUsed |-> rt.pct], render)

\* promhttp.Handler: the exposition of whatever the collectors sent.
MetricsResponse == [status |-> StatusOK, body |-> "exposition", page |-> << >>]

-----------------------------------------------------------------------------
(* Initial states *)

TypeInit ==
    /\ phase = "startup"
    /\ described = << >>
    /\ pc = [r \in Conns |-> "idle"]
    /\ req = [r \in Conns |-> [path |-> "/", query |-> << >>]]
    /\ frame = [r \in Conns |-> NewFrame]
    /\ ret = [r \in Conns |-> NoRet]
    /\ response = [r \in Conns |-> NoResponse]
    /\ samples = [r \in Conns |-> << >>]
    /\ handlerCalls = [r \in Conns |-> 0]
    /\ fetches = [r \in Conns |-> 0]
    /\ dates = [r \in Conns |-> << >>]
    /\ fails = [r \in Conns |-> 0]
    /\ firstErr = [r \in Conns |-> NoErr]
    /\ lastOut = [r \in Conns |-> [resp |-> NilResp, err |-> NoErr]]
    /\ everFailed = FALSE

Requests == [path : Paths, query : Queries]

\* One connection at a time, any pair of secrets, any request, any upstream
\* outcome; the run starts one hour before a UTC midnight.
Init ==
    /\ TypeInit
    /\ conf \in [WebAuth : Secrets, MetricsAuth : Secrets]
    /\ now = StartHour
    /\ ticksLeft = MaxTicks
    /\ \E z \in Zones :
           env = [conns |-> {1}, requests |-> Requests, outcomes |-> Outcomes,
                  renders |-> RenderOutcomes, zone |-> z]

ConcRequests ==
    {[path |-> "/", query |-> << >>], [path |-> "/", query |-> <<"a">>],
     [path |-> "/metrics", query |-> << >>]}

\* Two connections served concurrently during one UTC day; the page is gated,
\* the metrics are open, upstream may answer anything, the template renders.
ConcInit ==
    /\ TypeInit
    /\ conf = [WebAuth |-> "a", MetricsAuth |-> ""]
    /\ now = StartHour - Day \div 2
    /\ ticksLeft = 1
    /\ env = [conns |-> Conns, requests |-> ConcRequests,
              outcomes |-> Outcomes, renders |-> {"ok"},
              zone |-> ZoneUTC]

-----------------------------------------------------------------------------
(* Actions *)

\* mainE, lines 291-292: registration asks the collector for its descriptors.
MustRegister ==
    /\ phase = "startup"
    /\ phase' = "serving"
    /\ described' = Describe(NewQuotaCollector)
    /\ UNCHANGED <<conf, now, ticksLeft, env, pc, req, frame, ret, response,
                   samples, handlerCalls, fetches, dates, fails, firstErr,
                   lastOut, everFailed>>

\* The wall clock advances by one hour.
Tick ==
    /\ ticksLeft > 0
    /\ now' = now + 1
    /\ ticksLeft' = ticksLeft - 1
    /\ UNCHANGED <<conf, phase, described, env, pc, req, frame, ret,
                   response, samples, handlerCalls, fetches, dates, fails,
                   firstErr, lastOut, everFailed>>

\* A request arrives on connection r: the mux picks the gated handler, the
\* gate answers 401 or calls the wrapped handler, which (either one) starts
\* by calling fetchQuotaStats; the step ends in front of the first upstream
\* call.
Request(r, path, query) ==
    /\ phase = "serving"
    /\ r \in env.conns
    /\ pc[r] = "idle"
    /\ req' = [req EXCEPT ![r] = [path |-> path, query |-> query]]
    /\ LET h == Mux(conf)[path]
       IN  IF authTokenMiddleware(h.authToken, query) = "Unauthorized"
           THEN /\ response' = [response EXCEPT ![r] =
                        HttpError("Unauthorized", StatusUnauthorized)]
                /\ pc' = [pc EXCEPT ![r] = "done"]
                /\ UNCHANGED <<handlerCalls, fetches, frame>>
           ELSE /\ handlerCalls' = [handlerCalls EXCEPT ![r] = @ + 1]
                /\ fetches' = [fetches EXCEPT ![r] = @ + 1]
                /\ frame' = [frame EXCEPT ![Local(r)] = NewFrame]
                /\ pc' = [pc EXCEPT ![r] = "loop"]
                /\ UNCHANGED response
    /\ UNCHANGED <<conf, phase, described, now, ticksLeft, env, ret,
                   samples, dates, fails, firstErr, lastOut, everFailed>>

\* First half of a loop iteration, lines 100-102: read the clock, compute the
\* candidate date and send the call for it.  The goroutine then waits for
\* the answer while other goroutines and the clock go on.
ProbeSend(r) ==
    /\ phase = "serving"
    /\ pc[r] = "loop"
    /\ LET f == frame[Local(r)]
           t == ProbeTime(env.zone, now, f.i)
       IN  /\ dates' = [dates EXCEPT ![r] = Append(@, FormatDate(t))]
           /\ frame' = [frame EXCEPT ![Local(r)] = [f EXCEPT !.t = t]]
    /\ pc' = [pc EXCEPT ![r] = "wait"]
    /\ UNCHANGED <<conf, phase, described, now, ticksLeft, env, req, ret,
                   response, samples, handlerCalls, fetches, fails, firstErr,
                   lastOut, everFailed>>

\* Second half, lines 102-105 and the loop header: Do() returns, resp and err
\* are assigned, the loop is left on success or after the last candidate.
ProbeReturn(r, out) ==
    /\ phase = "serving"
    /\ pc[r] = "wait"
    /\ LET f == frame[Local(r)]
       IN  /\ lastOut' = [lastOut EXCEPT ![r] = out]
           /\ firstErr' = [firstErr EXCEPT ![r] =
                               IF Len(dates[r]) = 1 THEN out.err ELSE @]
           /\ fails' = [fails EXCEPT ![r] =
                               IF out.err # NoErr THEN @ + 1 ELSE @]
           /\ IF out.err = NoErr
              THEN /\ frame' = [frame EXCEPT ![Local(r)] =
                           [f EXCEPT !.resp = out.resp, !.err = out.err]]
                   /\ pc' = [pc EXCEPT ![r] = "after"]
              ELSE /\ frame' = [frame EXCEPT ![Local(r)] =
                           [f EXCEPT !.resp = out.resp, !.err = out.err,
                                     !.i = f.i - 1]]
                   /\ pc' = [pc EXCEPT ![r] =
                           IF f.i - 1 > LoopEnd THEN "loop" ELSE "after"]
    /\ UNCHANGED <<conf, phase, described, now, ticksLeft, env, req, ret,
                   response, samples, handlerCalls, fetches, dates,
                   everFailed>>

\* The rest of fetchQuotaStats (lines 107-125) and of its caller: Collect
\* under promhttp for /metrics, the stats page handler otherwise.  An index
\* into an empty report list panics and no response is written.  net/http
\* recovers a panic of the page handler, which runs on the connection's
\* goroutine; Collect runs on a goroutine the registry starts for the
\* scrape, where nothing recovers it, and its panic ends the process.
AfterLoop(r, render) ==
    /\ phase = "serving"
    /\ pc[r] = "after"
    /\ LET rt == FetchReturn(frame[Local(r)])
           h  == Mux(conf)[req[r].path]
       IN  /\ ret' = [ret EXCEPT ![r] = rt]
           /\ IF rt.panic
              THEN /\ pc' = [pc EXCEPT ![r] = "panicked"]
                   /\ phase' = IF h.next = "promhttp" THEN "crashed" ELSE phase
                   /\ UNCHANGED <<response, samples, everFailed>>
              ELSE /\ pc' = [pc EXCEPT ![r] = "done"]
                   /\ UNCHANGED phase
                   /\ IF h.next = "promhttp"
                      THEN /\ samples' = [samples EXCEPT ![r] =
                                   Collect(NewQuotaCollector, rt)]
                           /\ response' = [response EXCEPT ![r] =
                                   MetricsResponse]
                           /\ everFailed' = (everFailed \/ rt.err # NoErr)
                      ELSE /\ response' = [response EXCEPT ![r] =
                                   statsPageHanderFunc(rt, render)]
                           /\ UNCHANGED <<samples, everFailed>>
    /\ UNCHANGED <<conf, described, now, ticksLeft, env, req, frame,
                   handlerCalls, fetches, dates, fails, firstErr, lastOut>>

\* The exchange on connection r is over; nothing of it is kept.
Close(r) ==
    /\ phase = "serving"
    /\ pc[r] \in {"done", "panicked"}
    /\ pc' = [pc EXCEPT ![r] = "idle"]
    /\ req' = [req EXCEPT ![r] = [path |-> "/", query |-> << >>]]
    /\ ret' = [ret EXCEPT ![r] = NoRet]
    /\ response' = [response EXCEPT ![r] = NoResponse]
    /\ samples' = [samples EXCEPT ![r] = << >>]
    /\ handlerCalls' = [handlerCalls EXCEPT ![r] = 0]
    /\ fetches' = [fetches EXCEPT ![r] = 0]
    /\ dates' = [dates EXCEPT ![r] = << >>]
    /\ fails' = [fails EXCEPT ![r] = 0]
    /\ firstErr' = [firstErr EXCEPT ![r] = NoErr]
    /\ lastOut' = [lastOut EXCEPT ![r] = [resp |-> NilResp, err |-> NoErr]]
    /\ UNCHANGED <<conf, phase, described, now, ticksLeft, env, frame,
                   everFailed>>

Next ==
    \/ MustRegister
    \/ Tick
    \/ \E r \in env.conns, rq \in env.requests :
           Request(r, rq.path, rq.query)
    \/ \E r \in env.conns : ProbeSend(r)
    \/ \E r \in env.conns, out \in env.outcomes : ProbeReturn(r, out)
    \/ \E r \in env.conns, render \in env.renders : AfterLoop(r, render)
    \/ \E r \in env.conns : Close(r)

Spec == Init /\ [][Next]_vars

ConcSpec == ConcInit /\ [][Next]_vars

-----------------------------------------------------------------------------
(* Vocabulary of the properties *)

Token(r) == QueryGet(req[r].query)

\* The secret configured for the endpoint of r's request, and the other one.
OwnSecret(r) ==
    IF req[r].path = "/metrics" THEN conf.MetricsAuth ELSE conf.WebAuth

OtherSecret(r) ==
    IF req[r].path = "/metrics" THEN conf.WebAuth ELSE conf.MetricsAuth

Unauthorized401 ==
    [status |-> 401, body |-> "Unauthorized\n", page |-> << >>]

\* The exchange on r has ended, by a return or by a panic.
Ended(r) == pc[r] \in {"done", "panicked"}

\* r went through the gate and its fetch is over.
Fetched(r) == Ended(r) /\ handlerCalls[r] = 1

MaxProbes == 5

AllDescriptors ==
    {"google_workspace_quota_timestamp", "google_workspace_quota_bytes_total",
     "google_workspace_quota_bytes_used"}

\* MB x 1,048,576 for the quota values the reports carry, written out.
ExpectedBytes(mb) ==
    CASE mb = 0       -> << >>
      [] mb = 3       -> <<728, 145, 3>>
      [] mb = 15      -> <<640, 728, 15>>
      [] mb = 524288  -> <<888, 813, 755, 549>>
      [] mb = 1048576 -> <<776, 627, 511, 99, 1>>

-----------------------------------------------------------------------------
(* Properties *)

\* C1: the gate built for secret s calls the wrapped handler exactly once iff
\* s is empty or the request's token equals s; otherwise it answers
\* 401 Unauthorized and the wrapped handler is never called.
GateAdmitsIffTokenMatches ==
    \A r \in Conns :
        pc[r] # "idle" =>
            IF OwnSecret(r) = "" \/ Token(r) = OwnSecret(r)
            THEN handlerCalls[r] = 1 /\ response[r].status # 401
            ELSE /\ handlerCalls[r] = 0
                 /\ fetches[r] = 0
                 /\ pc[r] = "done"
                 /\ response[r] = Unauthorized401

\* A wrong token was presented to a gate with a secret and was turned away.
GateRejectedWrongToken ==
    \E r \in Conns :
        /\ pc[r] = "done"
        /\ OwnSecret(r) # ""
        /\ req[r].query # << >>
        /\ Token(r) # OwnSecret(r)
        /\ response[r] = Unauthorized401

\* C2: a fetch issues its upstream calls one after another and stops at the
\* first success: if the k-th probe is the first to succeed it issues exactly
\* k calls and returns that probe's data and date with no error; if all 5
\* fail it issues exactly 5 calls and returns the 5th probe's error.
FetchStopsAtFirstSuccess ==
    \A r \in Conns :
        Fetched(r) =>
            LET n == Len(dates[r])
            IN  /\ n \in 1..MaxProbes
                /\ IF lastOut[r].err = NoErr
                   THEN /\ fails[r] = n - 1
                        /\ pc[r] = "done"
                        /\ ret[r].err = NoErr
                        /\ FormatDate(ret[r].t) = dates[r][n]
                        /\ [total |-> ret[r].total, used |-> ret[r].used]
                             = Extract(lastOut[r].resp.usageReports[1],
                                       [total |-> 0, used |-> 0])
                   ELSE /\ n = MaxProbes
                        /\ fails[r] = MaxProbes
                        /\ pc[r] = "done"
                        /\ ret[r].err = lastOut[r].err

\* The same, for fetches whose accepted report has at least one entry.
FetchStopsAtFirstSuccessGivenEntries ==
    \A r \in Conns :
        Fetched(r) /\ ~(lastOut[r].err = NoErr
                        /\ lastOut[r].resp.usageReports = << >>) =>
            LET n == Len(dates[r])
            IN  /\ n \in 1..MaxProbes
                /\ IF lastOut[r].err = NoErr
                   THEN /\ fails[r] = n - 1
                        /\ pc[r] = "done"
                        /\ ret[r].err = NoErr
                        /\ FormatDate(ret[r].t) = dates[r][n]
                   ELSE /\ n = MaxProbes
                        /\ fails[r] = MaxProbes
                        /\ pc[r] = "done"
                        /\ ret[r].err = lastOut[r].err

\* C3: when the accepted report has no usage-report entry, the fetch returns
\* an error to its caller instead of panicking, neither the handling
\* goroutine nor the process is brought down, and the caller takes its
\* fetch-failure path.
EmptyReportIsAnError ==
    \A r \in Conns :
        (Fetched(r) /\ lastOut[r].err = NoErr
                    /\ lastOut[r].resp.usageReports = << >>) =>
            /\ phase # "crashed"
            /\ pc[r] = "done"
            /\ ret[r].err # NoErr
            /\ samples[r] = << >>
            /\ response[r].page = << >>

\* C4: Describe sends all three descriptors (timestamp, total, used), so that
\* every sample Collect sends carries a descriptor Describe enumerated.
DescribeSendsAllDescriptors ==
    phase # "startup" =>
        /\ {described[k] : k \in 1..Len(described)} = AllDescriptors
        /\ \A r \in Conns : \A k \in 1..Len(samples[r]) :
               \E j \in 1..Len(described) : described[j] = samples[r][k].desc

\* C5: a scrape whose 5 probes all fail ends normally with zero samples, and
\* a scrape whose fetch succeeds sends three samples, whatever happened to
\* earlier scrapes.
FailedScrapeSendsNothing ==
    \A r \in Conns :
        (Fetched(r) /\ req[r].path = "/metrics") =>
            /\ fails[r] = MaxProbes =>
                   /\ pc[r] = "done"
                   /\ samples[r] = << >>
                   /\ response[r].status = 200
            /\ (pc[r] = "done" /\ lastOut[r].err = NoErr) =>
                   Len(samples[r]) = 3

\* A scrape sent its three samples after an earlier scrape had failed.
ScrapeSucceededAfterFailure ==
    /\ everFailed
    /\ \E r \in Conns :
           /\ pc[r] = "done"
           /\ req[r].path = "/metrics"
           /\ lastOut[r].err = NoErr
           /\ Len(samples[r]) = 3

\* C6: a scrape whose fetch succeeded with totalQuotaMB and usedQuotaMB sends
\* exactly three gauges: timestamp, total = totalQuotaMB * 1,048,576 and
\* used = usedQuotaMB * 1,048,576.
ScrapeConvertsMBToBytes ==
    \A r \in Conns :
        (pc[r] = "done" /\ handlerCalls[r] = 1 /\ req[r].path = "/metrics"
                        /\ ret[r].err = NoErr) =>
            /\ Len(samples[r]) = 3
            /\ \A k \in 1..3 : samples[r][k].type = "gauge"
            /\ samples[r][1].desc = "google_workspace_quota_timestamp"
            /\ samples[r][2].desc = "google_workspace_quota_bytes_total"
            /\ samples[r][3].desc = "google_workspace_quota_bytes_used"
            /\ samples[r][2].value = ExpectedBytes(ret[r].total)
            /\ samples[r][3].value = ExpectedBytes(ret[r].used)

\* 1,048,576 MB and 524,288 MB came out as 1,099,511,627,776 and
\* 549,755,813,888 bytes.
ScrapeSentOneTebibyte ==
    \E r \in Conns :
        /\ pc[r] = "done"
        /\ req[r].path = "/metrics"
        /\ ret[r].total = 1048576
        /\ ret[r].used = 524288
        /\ Len(samples[r]) = 3
        /\ samples[r][2].value = <<776, 627, 511, 99, 1>>
        /\ samples[r][3].value = <<888, 813, 755, 549>>

\* A stats page request whose fetch failed with an upstream error.
PageFetchFailed(r) ==
    /\ pc[r] = "done"
    /\ handlerCalls[r] = 1
    /\ req[r].path = "/"
    /\ lastOut[r].err # NoErr

\* C7: when the fetch fails the stats page answers 500 with one fixed body,
\* the same for every upstream error, and renders no template.
PageFailureIsGeneric ==
    /\ \A r \in Conns :
           PageFetchFailed(r) =>
               response[r] = [status |-> 500,
                              body |-> "Failed to fetch quota stats\n",
                              page |-> << >>]
    /\ \A r1, r2 \in Conns :
           PageFetchFailed(r1) /\ PageFetchFailed(r2) =>
               response[r1] = response[r2]

\* Two page requests failed on different upstream errors.
TwoPagesFailedDifferently ==
    \E r1, r2 \in Conns :
        /\ PageFetchFailed(r1)
        /\ PageFetchFailed(r2)
        /\ lastOut[r1].err # lastOut[r2].err
        /\ response[r1].status = 500

\* The gate's answer at an endpoint under configuration c.
GateAnswer(c, path, query) ==
    authTokenMiddleware(Mux(c)[path].authToken, query)

\* Changing the secret of one endpoint leaves every answer of the other.
OtherSecretIsIrrelevant ==
    \A s \in Secrets, query \in Queries :
        /\ GateAnswer([conf EXCEPT !.MetricsAuth = s], "/", query)
             = GateAnswer(conf, "/", query)
        /\ GateAnswer([conf EXCEPT !.WebAuth = s], "/metrics", query)
             = GateAnswer(conf, "/metrics", query)

\* C8, as stated: each endpoint is gated by its own secret alone, and a token
\* equal to one endpoint's non-empty secret but not to the other's is
\* answered 401 at the other endpoint, for all pairs of secrets.
ForeignTokenAlwaysRejected ==
    /\ OtherSecretIsIrrelevant
    /\ \A r \in Conns :
           pc[r] # "idle" =>
               /\ handlerCalls[r] = 1
                    <=> (OwnSecret(r) = "" \/ Token(r) = OwnSecret(r))
               /\ (OtherSecret(r) # "" /\ Token(r) = OtherSecret(r)
                                       /\ Token(r) # OwnSecret(r)) =>
                      response[r] = Unauthorized401

\* C8, amended: the same, the 401 being promised only at an endpoint whose
\* own secret is non-empty (an empty secret admits every token).
ForeignTokenRejectedByNonEmptySecret ==
    /\ OtherSecretIsIrrelevant
    /\ \A r \in Conns :
           pc[r] # "idle" =>
               /\ handlerCalls[r] = 1
                    <=> (OwnSecret(r) = "" \/ Token(r) = OwnSecret(r))
               /\ (OtherSecret(r) # "" /\ Token(r) = OtherSecret(r)
                                       /\ OwnSecret(r) # ""
                                       /\ Token(r) # OwnSecret(r)) =>
                      response[r] = Unauthorized401

\* The other endpoint's secret was presented to a gate with a different
\* non-empty secret and was turned away.
ForeignTokenWasRejected ==
    \E r \in Conns :
        /\ pc[r] = "done"
        /\ OtherSecret(r) # ""
        /\ OwnSecret(r) # ""
        /\ Token(r) = OtherSecret(r)
        /\ Token(r) # OwnSecret(r)
        /\ response[r] = Unauthorized401

\* C9: a request that passes the gate runs exactly one fetch of its own with
\* at least one upstream call, a rejected request runs none, and under any
\* interleaving what a request's fetch returns (date, total, used, error) is
\* computed from the outcomes of that request's own upstream calls.
FetchUsesOwnCallsOnly ==
    \A r \in Conns :
        pc[r] # "idle" =>
            /\ fetches[r] = handlerCalls[r]
            /\ handlerCalls[r] \in {0, 1}
            /\ handlerCalls[r] = 0 => dates[r] = << >>
            /\ Fetched(r) =>
                   /\ Len(dates[r]) \in 1..MaxProbes
                   /\ ret[r].err = lastOut[r].err
                   /\ (pc[r] = "done" /\ ret[r].err = NoErr) =>
                          /\ lastOut[r].resp.usageReports # << >>
                          /\ FormatDate(ret[r].t) = dates[r][Len(dates[r])]
                          /\ [total |-> ret[r].total, used |-> ret[r].used]
                               = Extract(lastOut[r].resp.usageReports[1],
                                         [total |-> 0, used |-> 0])

\* Two requests' fetches overlapped and returned different reports.
ConcurrentFetchesDiffered ==
    /\ pc[1] = "done"
    /\ pc[2] = "done"
    /\ handlerCalls[1] = 1
    /\ handlerCalls[2] = 1
    /\ ret[1].err = NoErr
    /\ ret[2].err = NoErr
    /\ ret[1].total # ret[2].total
    /\ Len(dates[1]) > 1
    /\ Len(dates[2]) > 1

\* C10: within one fetch each probe's date is exactly one day earlier than
\* the previous probe's, however much time passes between probes.
ProbeDatesStepBackByOneDay ==
    \A r \in Conns :
        \A k \in 2..Len(dates[r]) : dates[r][k] = dates[r][k - 1] - 1

=============================================================================
